---- MODULE Spec2Model ----
(***************************************************************************)
(* Model of src/lambda/lambda_function.py: the scheduled EC2 backup job.   *)
(* One invocation of lambda_handler is a sequential run of API calls       *)
(* (describe_instances, create_snapshot, create_tags, describe_snapshots,  *)
(* delete_snapshot, put_object); every call may fail, the calendar date    *)
(* may advance between two calls, and EC2 completes pending snapshots on   *)
(* its own.                                                                *)
(***************************************************************************)
EXTENDS Integers, Sequences, FiniteSets

(***************************************************************************)
(* Bounds of the model.                                                    *)
(***************************************************************************)
MaxDevices == 2
MaxPreSnapshots == 2
MaxRetention == 1
MaxTicks == 1
MaxFailures == 2

(***************************************************************************)
(* datetime.date: a date is a record [year, month, day]; the arithmetic    *)
(* goes through proleptic Gregorian ordinals as datetime does.             *)
(***************************************************************************)
is_leap(year) == year % 4 = 0 /\ (year % 100 # 0 \/ year % 400 = 0)

DAYS_IN_MONTH == <<31, 28, 31, 30, 31, 30, 31, 31, 30, 31, 30, 31>>

DAYS_BEFORE_MONTH == <<0, 31, 59, 90, 120, 151, 181, 212, 243, 273, 304, 334>>

days_in_month(year, month) ==
    IF month = 2 /\ is_leap(year) THEN 29 ELSE DAYS_IN_MONTH[month]

days_before_year(year) ==
    LET y == year - 1 IN y * 365 + (y \div 4) - (y \div 100) + (y \div 400)

days_before_month(year, month) ==
    DAYS_BEFORE_MONTH[month] + (IF month > 2 /\ is_leap(year) THEN 1 ELSE 0)

Date(y, m, d) == [year |-> y, month |-> m, day |-> d]

toordinal(dt) ==
    days_before_year(dt.year) + days_before_month(dt.year, dt.month) + dt.day

fromordinal(ord) ==
    LET n0 == ord - 1
        n400 == n0 \div 146097
        r400 == n0 % 146097
        n100 == r400 \div 36524
        r100 == r400 % 36524
        n4 == r100 \div 1461
        r4 == r100 % 1461
        n1 == r4 \div 365
        n == r4 % 365
        year == n400 * 400 + 1 + n100 * 100 + n4 * 4 + n1
        leapyear == n1 = 3 /\ (n4 # 24 \/ n100 = 3)
        leap == IF leapyear THEN 1 ELSE 0
        m0 == (n + 50) \div 32
        p0 == DAYS_BEFORE_MONTH[m0] + (IF m0 > 2 THEN leap ELSE 0)
        month == IF p0 > n THEN m0 - 1 ELSE m0
        preceding == IF p0 > n
                     THEN p0 - (DAYS_IN_MONTH[month] + (IF month = 2 THEN leap ELSE 0))
                     ELSE p0
    IN IF n1 = 4 \/ n100 = 4
       THEN Date(year - 1, 12, 31)
       ELSE Date(year, month, n - preceding + 1)

\* date.max.toordinal(): the last ordinal a date can hold (9999-12-31)
MaxOrdinal == toordinal(Date(9999, 12, 31))

\* date < date compares (year, month, day)
DateLess(a, b) ==
    \/ a.year < b.year
    \/ a.year = b.year /\ a.month < b.month
    \/ a.year = b.year /\ a.month = b.month /\ a.day < b.day

(***************************************************************************)
(* Strings that are parsed are sequences of one-character strings.         *)
(***************************************************************************)
Digits == <<"0", "1", "2", "3", "4", "5", "6", "7", "8", "9">>

DigitChars == {Digits[i] : i \in 1..10}

DigitVal(c) == (CHOOSE i \in 1..10 : Digits[i] = c) - 1

DigitChar(n) == Digits[n + 1]

\* date.isoformat(): "%04d-%02d-%02d"
isoformat(dt) ==
    << DigitChar(dt.year \div 1000), DigitChar((dt.year \div 100) % 10),
       DigitChar((dt.year \div 10) % 10), DigitChar(dt.year % 10), "-",
       DigitChar(dt.month \div 10), DigitChar(dt.month % 10), "-",
       DigitChar(dt.day \div 10), DigitChar(dt.day % 10) >>

ValueError == [error |-> "ValueError"]

At(s, i) == IF i >= 1 /\ i <= Len(s) THEN s[i] ELSE "$"

IsDigit(c) == c \in DigitChars

\* Length of the text the %m directive takes at position i:
\* 1[0-2] | 0[1-9] | [1-9], and a "-" has to follow it.
MonthLen(s, i) ==
    LET a == At(s, i)
        b == At(s, i + 1)
        two == \/ a = "1" /\ b \in {"0", "1", "2"}
               \/ a = "0" /\ IsDigit(b) /\ b # "0"
    IN IF two /\ At(s, i + 2) = "-" THEN 2
       ELSE IF IsDigit(a) /\ a # "0" /\ b = "-" THEN 1
       ELSE 0

\* Length of the text the %d directive takes at position i:
\* 3[01] | [12]\d | 0[1-9] | [1-9] | " "[1-9], first alternative that matches.
DayLen(s, i) ==
    LET a == At(s, i)
        b == At(s, i + 1)
    IN IF a = "3" /\ b \in {"0", "1"} THEN 2
       ELSE IF a \in {"1", "2"} /\ IsDigit(b) THEN 2
       ELSE IF a = "0" /\ IsDigit(b) /\ b # "0" THEN 2
       ELSE IF IsDigit(a) /\ a # "0" THEN 1
       ELSE IF a = " " /\ IsDigit(b) /\ b # "0" THEN 2
       ELSE 0

Number(s, i, len) ==
    IF len = 1 THEN DigitVal(s[i])
    ELSE IF s[i] = " " THEN DigitVal(s[i + 1])
    ELSE 10 * DigitVal(s[i]) + DigitVal(s[i + 1])

\* datetime.datetime.strptime(value, "%Y-%m-%d").date(): the date, or
\* ValueError when the text does not match, leaves unconverted data or names
\* a day that does not exist.
strptime(s) ==
    IF ~(\A i \in 1..4 : IsDigit(At(s, i))) \/ At(s, 5) # "-" THEN ValueError
    ELSE LET ml == MonthLen(s, 6)
             dl == DayLen(s, 6 + ml + 1)
             y == 1000 * DigitVal(s[1]) + 100 * DigitVal(s[2])
                  + 10 * DigitVal(s[3]) + DigitVal(s[4])
         IN IF ml = 0 \/ dl = 0 \/ Len(s) # 6 + ml + dl THEN ValueError
            ELSE LET m == Number(s, 6, ml)
                     d == Number(s, 6 + ml + 1, dl)
                 IN IF y < 1 \/ d > days_in_month(y, m) THEN ValueError
                    ELSE Date(y, m, d)

(***************************************************************************)
(* Identifiers and the replies of EC2 the invocation can meet.             *)
(***************************************************************************)
InstanceIds == <<"i-1", "i-2">>

VolumeIds ==
    << <<"vol-11", "vol-12", "vol-13", "vol-14">>,
       <<"vol-21", "vol-22", "vol-23", "vol-24">> >>

SnapshotIds ==
    <<"snap-01", "snap-02", "snap-03", "snap-04", "snap-05", "snap-06",
      "snap-07", "snap-08", "snap-09", "snap-10", "snap-11", "snap-12">>

SeqsUpTo(S, n) == UNION {[1..k -> S] : k \in 0..n}

Range(s) == {s[i] : i \in 1..Len(s)}

RECURSIVE Flatten(_)
Flatten(ss) == IF ss = <<>> THEN <<>> ELSE Head(ss) \o Flatten(Tail(ss))

\* One entry of an instance's BlockDeviceMappings: only an EBS-backed device
\* has the "Ebs" key.
BlockDevice(n, j, kind) ==
    IF kind = "ebs"
    THEN [DeviceName |-> "xvd", Ebs |-> [VolumeId |-> VolumeIds[n][j]]]
    ELSE [DeviceName |-> "xvd"]

Instance(n, state, kinds) ==
    [InstanceId |-> InstanceIds[n],
     State |-> [Name |-> state],
     BlockDeviceMappings |-> [j \in 1..Len(kinds) |-> BlockDevice(n, j, kinds[j])]]

InstanceShapes(maxDev) ==
    {"running", "terminated"} \X SeqsUpTo({"ebs", "store"}, maxDev)

\* The replies of describe_instances: up to maxInst instances carrying
\* Backup=true with up to maxDev block devices between them, all in one
\* reservation or one reservation each.
Fleets(maxInst, maxDev) ==
    LET devices(sh) == Len(Flatten([n \in 1..Len(sh) |-> sh[n][2]]))
        shapes == {sh \in SeqsUpTo(InstanceShapes(maxDev), maxInst) : devices(sh) <= maxDev}
        insts(sh) == [n \in 1..Len(sh) |-> Instance(n, sh[n][1], sh[n][2])]
    IN {<<>>}
       \cup {<<[Instances |-> insts(sh)]>> : sh \in shapes \ {<<>>}}
       \cup {[n \in 1..Len(sh) |-> [Instances |-> <<insts(sh)[n]>>]] : sh \in shapes}

Tag(k, v) == [Key |-> k, Value |-> v]

AttributionTag == Tag("CreatedBy", <<"automated-backup">>)

\* The oldest snapshot that is already there is one day past every retention
\* window of the model.
MaxAge == MaxRetention + 1

\* Texts a CreatedOn tag of a snapshot that is already there can hold: the
\* ISO date of one of the last days, a date written without padding, a day
\* that does not exist.
CreatedOnValues(day) ==
    {isoformat(fromordinal(day - a)) : a \in 0..MaxAge}
    \cup {<<"2", "0", "2", "4", "-", "2", "-", "3">>,
          <<"2", "0", "2", "4", "-", "0", "2", "-", "3", "0">>}

\* Tag lists and states of the snapshots that are already there.
SnapshotShapes(day) ==
    LET old == isoformat(fromordinal(day - MaxAge))
    IN {<<"completed", <<AttributionTag, Tag("CreatedOn", v)>>>> : v \in CreatedOnValues(day)}
       \cup {<<"completed", <<AttributionTag>>>>,
             <<"completed", <<Tag("CreatedOn", old)>>>>,
             <<"pending", <<AttributionTag, Tag("CreatedOn", old)>>>>}

Stores(day, maxSnap) ==
    {[i \in 1..Len(sh) |->
        [SnapshotId |-> SnapshotIds[i], State |-> sh[i][1], Tags |-> sh[i][2]]]
     : sh \in SeqsUpTo(SnapshotShapes(day), maxSnap)}

\* RETENTION_DAYS is any integer the environment holds: a few small windows,
\* and one that reaches before the first day a date can hold.
RetentionChoices == (-1..MaxRetention) \cup {MaxOrdinal}

StartDay == toordinal(Date(2024, 2, 28))

(***************************************************************************)
(* State.                                                                  *)
(***************************************************************************)
VARIABLES
    pc,              \* where the invocation stands
    clock,           \* ordinal of the calendar day date.today() returns
    ticks,           \* midnights passed since the invocation began
    failures,        \* API calls that have failed so far
    RETENTION_DAYS,  \* int(os.environ["RETENTION_DAYS"])
    reservations,    \* EC2: what describe_instances(tag:Backup=true) replies
    ec2_snapshots,   \* EC2: the snapshots the account owns
    logs,            \* lambda_handler: logs
    backup_logs,     \* create_backups: logs, then lambda_handler: backup_logs
    cleanup_logs,    \* cleanup_old_snapshots: logs, then lambda_handler: cleanup_logs
    work,            \* create_backups: the loop iterations still to run
    snapshot,        \* create_backups: the reply of create_snapshot
    cutoff_date,     \* cleanup_old_snapshots: cutoff_date
    snapshots,       \* cleanup_old_snapshots: the reply of describe_snapshots
    k,               \* cleanup_old_snapshots: position of the loop in snapshots
    exception,       \* lambda_handler: the exception caught at the top level
    result,          \* what the invoker observes
    calls,           \* every API call made, in order
    stdout           \* lines printed to the diagnostic output

vars ==
    <<pc, clock, ticks, failures, RETENTION_DAYS, reservations, ec2_snapshots,
      logs, backup_logs, cleanup_logs, work, snapshot, cutoff_date, snapshots,
      k, exception, result, calls, stdout>>

None == [none |-> TRUE]

today == fromordinal(clock)

(***************************************************************************)
(* create_backups                                                          *)
(***************************************************************************)
\* Mutant of VolumesOf: the loop without the check for terminated instances.
VolumesOf_KeepTerminated(instance) ==
    LET ebs == SelectSeq(instance.BlockDeviceMappings,
                         LAMBDA volume : "Ebs" \in DOMAIN volume)
    IN [j \in 1..Len(ebs) |->
           [instance_id |-> instance.InstanceId, vol_id |-> ebs[j].Ebs.VolumeId]]

\* The iterations of the loop over an instance's block devices that reach
\* the try block, in order.
VolumesOf(instance) ==
    IF instance.State.Name = "terminated" THEN <<>>
    ELSE LET ebs == SelectSeq(instance.BlockDeviceMappings,
                              LAMBDA volume : "Ebs" \in DOMAIN volume)
         IN [j \in 1..Len(ebs) |->
                [instance_id |-> instance.InstanceId, vol_id |-> ebs[j].Ebs.VolumeId]]

\* The iterations of the three nested loops that reach the try block.
Worklist(rs) ==
    LET instances == Flatten([r \in 1..Len(rs) |-> rs[r].Instances])
    IN Flatten([n \in 1..Len(instances) |-> VolumesOf(instances[n])])

\* Mutant of BackupTags: the tag list without the CreatedBy tag.
BackupTags_NoAttribution(instance_id, vol_id, day) ==
    << Tag("Name", <<"backup-", instance_id, "-", vol_id>>),
       Tag("InstanceId", <<instance_id>>),
       Tag("VolumeId", <<vol_id>>),
       Tag("CreatedOn", isoformat(day)) >>

\* The Tags argument of create_tags.
BackupTags(instance_id, vol_id, day) ==
    << Tag("Name", <<"backup-", instance_id, "-", vol_id>>),
       Tag("InstanceId", <<instance_id>>),
       Tag("VolumeId", <<vol_id>>),
       Tag("CreatedBy", <<"automated-backup">>),
       Tag("CreatedOn", isoformat(day)) >>

NoInstancesLine == [msg |-> "No instances found with Backup=true tag"]

CreatedLine(snapshot_id, instance_id, vol_id) ==
    [msg |-> "Created snapshot", SnapshotId |-> snapshot_id,
     instance_id |-> instance_id, vol_id |-> vol_id]

FailedBackupLine(instance_id, vol_id) ==
    [msg |-> "Failed to backup", instance_id |-> instance_id, vol_id |-> vol_id]

\* The summary lambda_handler returns: statusCode and the count in the body.
SuccessResult(lines) ==
    [kind |-> "returned", statusCode |-> 200, count |-> Len(lines)]

\* except Exception at the top level: append the failure line, go and save.
TopLevelFailure(err) ==
    /\ exception' = err
    /\ logs' = Append(logs, [msg |-> "Backup failed", error |-> err])
    /\ pc' = "save_logs"

\* create_backups returns lines: backup_logs is bound and logs extended.
BackupsReturn(lines) ==
    /\ backup_logs' = lines
    /\ logs' = logs \o lines
    /\ pc' = "cleanup"

\* The end of one iteration of the innermost loop.
NextVolume(lines) ==
    /\ work' = Tail(work)
    /\ IF Tail(work) = <<>>
       THEN BackupsReturn(lines)
       ELSE /\ backup_logs' = lines
            /\ pc' = "create_snapshot"
            /\ UNCHANGED logs

DescribeInstancesOk ==
    /\ pc = "lambda_handler"
    /\ calls' = Append(calls, [op |-> "describe_instances", ok |-> TRUE])
    /\ work' = Worklist(reservations)
    /\ IF reservations = <<>>
       THEN BackupsReturn(<<NoInstancesLine>>)
       ELSE IF Worklist(reservations) = <<>>
       THEN BackupsReturn(<<>>)
       ELSE /\ pc' = "create_snapshot"
            /\ UNCHANGED <<logs, backup_logs>>
    /\ UNCHANGED <<clock, ticks, failures, RETENTION_DAYS, reservations,
                   ec2_snapshots, cleanup_logs, snapshot, cutoff_date, snapshots,
                   k, exception, result, stdout>>

DescribeInstancesFails ==
    /\ pc = "lambda_handler"
    /\ failures < MaxFailures
    /\ failures' = failures + 1
    /\ calls' = Append(calls, [op |-> "describe_instances", ok |-> FALSE])
    /\ TopLevelFailure("describe_instances")
    /\ UNCHANGED <<clock, ticks, RETENTION_DAYS, reservations, ec2_snapshots,
                   backup_logs, cleanup_logs, work, snapshot, cutoff_date,
                   snapshots, k, result, stdout>>

CreateSnapshotOk ==
    /\ pc = "create_snapshot"
    /\ LET id == SnapshotIds[Len(ec2_snapshots) + 1]
       IN /\ snapshot' = [SnapshotId |-> id]
          /\ ec2_snapshots' = Append(ec2_snapshots,
                [SnapshotId |-> id, State |-> "pending", Tags |-> <<>>])
          /\ calls' = Append(calls,
                [op |-> "create_snapshot", ok |-> TRUE, SnapshotId |-> id,
                 VolumeId |-> Head(work).vol_id, instance_id |-> Head(work).instance_id])
    /\ pc' = "create_tags"
    /\ UNCHANGED <<clock, ticks, failures, RETENTION_DAYS, reservations, logs,
                   backup_logs, cleanup_logs, work, cutoff_date, snapshots, k,
                   exception, result, stdout>>

CreateSnapshotFails ==
    /\ pc = "create_snapshot"
    /\ failures < MaxFailures
    /\ failures' = failures + 1
    /\ calls' = Append(calls,
          [op |-> "create_snapshot", ok |-> FALSE, SnapshotId |-> "",
           VolumeId |-> Head(work).vol_id, instance_id |-> Head(work).instance_id])
    /\ NextVolume(Append(backup_logs,
          FailedBackupLine(Head(work).instance_id, Head(work).vol_id)))
    /\ UNCHANGED <<clock, ticks, RETENTION_DAYS, reservations, ec2_snapshots,
                   cleanup_logs, snapshot, cutoff_date, snapshots, k, exception,
                   result, stdout>>

SetTags(store, id, tags) ==
    [i \in 1..Len(store) |->
        IF store[i].SnapshotId = id THEN [store[i] EXCEPT !.Tags = tags] ELSE store[i]]

CreateTagsOk ==
    /\ pc = "create_tags"
    /\ LET tags == BackupTags(Head(work).instance_id, Head(work).vol_id, today)
       IN /\ ec2_snapshots' = SetTags(ec2_snapshots, snapshot.SnapshotId, tags)
          /\ calls' = Append(calls,
                [op |-> "create_tags", ok |-> TRUE,
                 Resources |-> <<snapshot.SnapshotId>>, Tags |-> tags])
    /\ NextVolume(Append(backup_logs,
          CreatedLine(snapshot.SnapshotId, Head(work).instance_id, Head(work).vol_id)))
    /\ UNCHANGED <<clock, ticks, failures, RETENTION_DAYS, reservations,
                   cleanup_logs, snapshot, cutoff_date, snapshots, k, exception,
                   result, stdout>>

CreateTagsFails ==
    /\ pc = "create_tags"
    /\ failures < MaxFailures
    /\ failures' = failures + 1
    /\ calls' = Append(calls,
          [op |-> "create_tags", ok |-> FALSE,
           Resources |-> <<snapshot.SnapshotId>>,
           Tags |-> BackupTags(Head(work).instance_id, Head(work).vol_id, today)])
    /\ NextVolume(Append(backup_logs,
          FailedBackupLine(Head(work).instance_id, Head(work).vol_id)))
    /\ UNCHANGED <<clock, ticks, RETENTION_DAYS, reservations, ec2_snapshots,
                   cleanup_logs, snapshot, cutoff_date, snapshots, k, exception,
                   result, stdout>>

(***************************************************************************)
(* cleanup_old_snapshots                                                   *)
(***************************************************************************)
\* Mutant of DescribeSnapshots: the listing without the tag:CreatedBy filter.
DescribeSnapshots_NoLabelFilter(store) ==
    SelectSeq(store, LAMBDA s : s.State = "completed")

\* describe_snapshots(OwnerIds=self, tag:CreatedBy=automated-backup,
\* status=completed): what EC2 replies.
DescribeSnapshots(store) ==
    SelectSeq(store, LAMBDA s :
        /\ s.State = "completed"
        /\ \E i \in 1..Len(s.Tags) :
              s.Tags[i].Key = "CreatedBy" /\ s.Tags[i].Value = <<"automated-backup">>)

\* The loop over the tags of one snapshot: the date of the first CreatedOn
\* tag, None without one, ValueError when strptime raises.
RECURSIVE CreatedOn(_)
CreatedOn(tags) ==
    IF tags = <<>> THEN None
    ELSE IF Head(tags).Key = "CreatedOn" THEN strptime(Head(tags).Value)
    ELSE CreatedOn(Tail(tags))

\* Mutant of OldEnough: the comparison with the cutoff not strict.
OldEnough_NonStrict(created_on, cutoff) ==
    created_on # None /\ (DateLess(created_on, cutoff) \/ created_on = cutoff)

\* if created_on and created_on < cutoff_date
OldEnough(created_on, cutoff) == created_on # None /\ DateLess(created_on, cutoff)

\* The loop over the listed snapshots from position from on, up to the next
\* thing that shows: a delete_snapshot call, a ValueError, or the end.
RECURSIVE Scan(_, _, _)
Scan(list, from, cutoff) ==
    IF from > Len(list) THEN [what |-> "end", at |-> from]
    ELSE LET created_on == CreatedOn(list[from].Tags)
         IN IF created_on = ValueError THEN [what |-> "error", at |-> from]
            ELSE IF OldEnough(created_on, cutoff) THEN [what |-> "delete", at |-> from]
            ELSE Scan(list, from + 1, cutoff)

CleanupErrorLine(err) == [msg |-> "Error during cleanup", error |-> err]

DeletedLine(snapshot_id, created_on) ==
    [msg |-> "Deleted old snapshot", SnapshotId |-> snapshot_id, created_on |-> created_on]

FailedDeleteLine(snapshot_id) ==
    [msg |-> "Failed to delete snapshot", SnapshotId |-> snapshot_id]

\* Mutant of CleanupReturn: the cleanup lines put in front of the log.
CleanupReturn_Prepends(lines) ==
    /\ cleanup_logs' = lines
    /\ logs' = lines \o logs
    /\ pc' = "save_logs"

\* cleanup_old_snapshots returns lines: cleanup_logs is bound, logs extended,
\* and the handler goes on to save_logs_to_s3.
CleanupReturn(lines) ==
    /\ cleanup_logs' = lines
    /\ logs' = logs \o lines
    /\ pc' = "save_logs"

\* The loop goes on from position from with the log lines so far.
CleanupContinue(list, from, cutoff, lines) ==
    LET s == Scan(list, from, cutoff)
    IN /\ k' = s.at
       /\ IF s.what = "delete"
          THEN /\ cleanup_logs' = lines
               /\ pc' = "delete_snapshot"
               /\ UNCHANGED logs
          ELSE IF s.what = "error"
          THEN CleanupReturn(Append(lines, CleanupErrorLine("ValueError")))
          ELSE CleanupReturn(lines)

\* date.today() - timedelta(days=RETENTION_DAYS) raises OverflowError when
\* the day is not one a date can hold.
CutoffInRange == clock - RETENTION_DAYS >= 1 /\ clock - RETENTION_DAYS <= MaxOrdinal

CutoffOverflows ==
    /\ pc = "cleanup"
    /\ ~CutoffInRange
    /\ TopLevelFailure("OverflowError")
    /\ UNCHANGED <<clock, ticks, failures, RETENTION_DAYS, reservations,
                   ec2_snapshots, backup_logs, cleanup_logs, work, snapshot,
                   cutoff_date, snapshots, k, result, calls, stdout>>

DescribeSnapshotsOk ==
    /\ pc = "cleanup"
    /\ CutoffInRange
    /\ cutoff_date' = fromordinal(clock - RETENTION_DAYS)
    /\ snapshots' = DescribeSnapshots(ec2_snapshots)
    /\ calls' = Append(calls, [op |-> "describe_snapshots", ok |-> TRUE])
    /\ CleanupContinue(snapshots', 1, cutoff_date', <<>>)
    /\ UNCHANGED <<clock, ticks, failures, RETENTION_DAYS, reservations,
                   ec2_snapshots, backup_logs, work, snapshot, exception, result,
                   stdout>>

DescribeSnapshotsFails ==
    /\ pc = "cleanup"
    /\ CutoffInRange
    /\ failures < MaxFailures
    /\ failures' = failures + 1
    /\ cutoff_date' = fromordinal(clock - RETENTION_DAYS)
    /\ calls' = Append(calls, [op |-> "describe_snapshots", ok |-> FALSE])
    /\ CleanupReturn(<<CleanupErrorLine("describe_snapshots")>>)
    /\ UNCHANGED <<clock, ticks, RETENTION_DAYS, reservations, ec2_snapshots,
                   backup_logs, work, snapshot, snapshots, k, exception, result,
                   stdout>>

Remove(store, id) ==
    [i \in 1..Len(store) |->
        IF store[i].SnapshotId = id THEN [store[i] EXCEPT !.State = "deleted"] ELSE store[i]]

DeleteSnapshotOk ==
    /\ pc = "delete_snapshot"
    /\ LET id == snapshots[k].SnapshotId
       IN /\ ec2_snapshots' = Remove(ec2_snapshots, id)
          /\ calls' = Append(calls, [op |-> "delete_snapshot", ok |-> TRUE, SnapshotId |-> id])
          /\ CleanupContinue(snapshots, k + 1, cutoff_date,
                Append(cleanup_logs, DeletedLine(id, CreatedOn(snapshots[k].Tags))))
    /\ UNCHANGED <<clock, ticks, failures, RETENTION_DAYS, reservations,
                   backup_logs, work, snapshot, cutoff_date, snapshots, exception,
                   result, stdout>>

DeleteSnapshotFails ==
    /\ pc = "delete_snapshot"
    /\ failures < MaxFailures
    /\ failures' = failures + 1
    /\ LET id == snapshots[k].SnapshotId
       IN /\ calls' = Append(calls, [op |-> "delete_snapshot", ok |-> FALSE, SnapshotId |-> id])
          /\ CleanupContinue(snapshots, k + 1, cutoff_date,
                Append(cleanup_logs, FailedDeleteLine(id)))
    /\ UNCHANGED <<clock, ticks, RETENTION_DAYS, reservations, ec2_snapshots,
                   backup_logs, work, snapshot, cutoff_date, snapshots, exception,
                   result, stdout>>

(***************************************************************************)
(* save_logs_to_s3 and the end of lambda_handler                           *)
(***************************************************************************)
\* The put_object call: the body is the header and the joined log lines. The
\* timestamp in the header and in the key is left out.
PutObject(ok) ==
    [op |-> "put_object", ok |-> ok,
     Key |-> "backup-logs/",
     Body |-> <<[msg |-> "EC2 Backup Report"]>> \o logs]

\* After save_logs_to_s3: return the summary, or re-raise what was caught.
HandlerEnds ==
    /\ result' = IF exception = "none"
                 THEN SuccessResult(backup_logs)
                 ELSE [kind |-> "raised", error |-> exception]
    /\ pc' = "done"

PutObjectOk ==
    /\ pc = "save_logs"
    /\ calls' = Append(calls, PutObject(TRUE))
    /\ HandlerEnds
    /\ UNCHANGED <<clock, ticks, failures, RETENTION_DAYS, reservations,
                   ec2_snapshots, logs, backup_logs, cleanup_logs, work, snapshot,
                   cutoff_date, snapshots, k, exception, stdout>>

\* Mutant of PutObjectFails: the error of put_object reaches the invoker.
PutObjectFails_Propagates ==
    /\ pc = "save_logs"
    /\ failures < MaxFailures
    /\ failures' = failures + 1
    /\ calls' = Append(calls, PutObject(FALSE))
    /\ result' = [kind |-> "raised", error |-> "put_object"]
    /\ pc' = "done"
    /\ UNCHANGED <<clock, ticks, RETENTION_DAYS, reservations, ec2_snapshots,
                   logs, backup_logs, cleanup_logs, work, snapshot, cutoff_date,
                   snapshots, k, exception, stdout>>

PutObjectFails ==
    /\ pc = "save_logs"
    /\ failures < MaxFailures
    /\ failures' = failures + 1
    /\ calls' = Append(calls, PutObject(FALSE))
    /\ stdout' = Append(stdout, "Failed to save logs to S3")
    /\ HandlerEnds
    /\ UNCHANGED <<clock, ticks, RETENTION_DAYS, reservations, ec2_snapshots,
                   logs, backup_logs, cleanup_logs, work, snapshot, cutoff_date,
                   snapshots, k, exception>>

(***************************************************************************)
(* The environment: the calendar and EC2.                                  *)
(***************************************************************************)
\* The calendar day advances. The day is read by the tag call and by the
\* cutoff, so the step is taken right before one of them.
Midnight ==
    /\ pc \in {"create_tags", "cleanup"}
    /\ ticks < MaxTicks
    /\ ticks' = ticks + 1
    /\ clock' = clock + 1
    /\ UNCHANGED <<pc, failures, RETENTION_DAYS, reservations, ec2_snapshots,
                   logs, backup_logs, cleanup_logs, work, snapshot, cutoff_date,
                   snapshots, k, exception, result, calls, stdout>>

\* EC2 finishes a pending snapshot. Nothing reads the state of a snapshot
\* before the listing, so the step is taken right before it.
SnapshotCompletes ==
    /\ pc = "cleanup"
    /\ \E i \in 1..Len(ec2_snapshots) :
          /\ ec2_snapshots[i].State = "pending"
          /\ ec2_snapshots' = [ec2_snapshots EXCEPT ![i].State = "completed"]
    /\ UNCHANGED <<pc, clock, ticks, failures, RETENTION_DAYS, reservations,
                   logs, backup_logs, cleanup_logs, work, snapshot, cutoff_date,
                   snapshots, k, exception, result, calls, stdout>>

(***************************************************************************)
(* Specification.                                                          *)
(***************************************************************************)
\* Either the fleet is drawn from its whole bounded set and no snapshot is
\* there yet, or the snapshot store is drawn from its whole bounded set and
\* the fleet is empty or one running instance with one EBS volume.
Init ==
    /\ pc = "lambda_handler"
    /\ clock = StartDay
    /\ ticks = 0
    /\ failures = 0
    /\ RETENTION_DAYS \in RetentionChoices
    /\ \/ /\ reservations \in Fleets(Len(InstanceIds), MaxDevices)
          /\ ec2_snapshots = <<>>
       \/ /\ reservations \in {<<>>, <<[Instances |-> <<Instance(1, "running", <<"ebs">>)>>]>>}
          /\ ec2_snapshots \in Stores(clock, MaxPreSnapshots)
    /\ logs = <<>>
    /\ backup_logs = <<>>
    /\ cleanup_logs = <<>>
    /\ work = <<>>
    /\ snapshot = None
    /\ cutoff_date = None
    /\ snapshots = <<>>
    /\ k = 0
    /\ exception = "none"
    /\ result = [kind |-> "running"]
    /\ calls = <<>>
    /\ stdout = <<>>

Next ==
    \/ DescribeInstancesOk
    \/ DescribeInstancesFails
    \/ CreateSnapshotOk
    \/ CreateSnapshotFails
    \/ CreateTagsOk
    \/ CreateTagsFails
    \/ CutoffOverflows
    \/ DescribeSnapshotsOk
    \/ DescribeSnapshotsFails
    \/ DeleteSnapshotOk
    \/ DeleteSnapshotFails
    \/ PutObjectOk
    \/ PutObjectFails
    \/ Midnight
    \/ SnapshotCompletes

Spec == Init /\ [][Next]_vars

(***************************************************************************)
(* What the properties below observe: the API calls made and the tags EC2  *)
(* holds.                                                                  *)
(***************************************************************************)
CallIndexes(op) == {i \in 1..Len(calls) : calls[i].op = op}

LastCall == calls[Len(calls)]

Stored(id) == CHOOSE s \in Range(ec2_snapshots) : s.SnapshotId = id

TagValues(tags, key) ==
    {tags[i].Value : i \in {j \in 1..Len(tags) : tags[j].Key = key}}

Labelled(tags) == <<"automated-backup">> \in TagValues(tags, "CreatedBy")

\* The days (as ordinals) the CreatedOn tags of a tag list parse to.
CreatedOnDays(tags) ==
    {toordinal(strptime(v)) : v \in {w \in TagValues(tags, "CreatedOn") : strptime(w) # ValueError}}

Listed(id) == \E j \in 1..Len(snapshots) : snapshots[j].SnapshotId = id

DeleteCalled(id) == \E i \in CallIndexes("delete_snapshot") : calls[i].SnapshotId = id

\* The (instance, volume) pairs create_backups has to snapshot: the EBS-backed
\* block devices of the returned instances that are not terminated.
EligiblePairs ==
    UNION {UNION {{<<ins.InstanceId, dev.Ebs.VolumeId>> :
                      dev \in {x \in Range(ins.BlockDeviceMappings) : "Ebs" \in DOMAIN x}} :
                  ins \in {y \in Range(reservations[r].Instances) : y.State.Name # "terminated"}} :
           r \in 1..Len(reservations)}

CreateCallsFor(pair) ==
    {i \in CallIndexes("create_snapshot") : <<calls[i].instance_id, calls[i].VolumeId>> = pair}

(***************************************************************************)
(* C1                                                                      *)
(***************************************************************************)
\* C1: a delete_snapshot call is issued only for a snapshot that the listing
\* returned, that carries CreatedBy=automated-backup, is in completed status
\* and has a CreatedOn tag whose date is strictly earlier than
\* cutoff = today - RETENTION_DAYS; so a snapshot dated at the cutoff, without
\* CreatedOn tag or without the attribution label is never deleted.
C1_DeleteOnlyExpired ==
    /\ pc = "delete_snapshot" => toordinal(cutoff_date) = clock - RETENTION_DAYS
    /\ \A i \in CallIndexes("delete_snapshot") :
          LET s == Stored(calls[i].SnapshotId)
          IN /\ Listed(s.SnapshotId)
             /\ Labelled(s.Tags)
             /\ s.State \in {"completed", "deleted"}
             /\ \E d \in CreatedOnDays(s.Tags) : d < toordinal(cutoff_date)

\* A run that deleted a snapshot and kept a listed one dated at the cutoff.
C1_Witness ==
    /\ pc = "done"
    /\ \E i \in CallIndexes("delete_snapshot") : calls[i].ok
    /\ \E j \in 1..Len(snapshots) :
          /\ CreatedOnDays(snapshots[j].Tags) = {toordinal(cutoff_date)}
          /\ ~DeleteCalled(snapshots[j].SnapshotId)
          /\ Stored(snapshots[j].SnapshotId).State = "completed"

(***************************************************************************)
(* C2                                                                      *)
(***************************************************************************)
\* C2: every snapshot a create_snapshot call of this invocation has created
\* carries, once the step for its volume has finished, both the
\* CreatedBy=automated-backup tag and a CreatedOn tag.
C2_CreatedCarryTags ==
    \A i \in CallIndexes("create_snapshot") :
        (calls[i].ok /\ ~(pc = "create_tags" /\ i = Len(calls)))
        => /\ Labelled(Stored(calls[i].SnapshotId).Tags)
           /\ TagValues(Stored(calls[i].SnapshotId).Tags, "CreatedOn") # {}

(***************************************************************************)
(* C3                                                                      *)
(***************************************************************************)
\* C3: the create_snapshot calls of an invocation are exactly the eligible
\* (instance, volume) pairs, each once: no call for a terminated instance or
\* a device without EBS backing, never two calls for a pair, and one call for
\* every eligible pair once create_backups has returned, whatever failed for
\* the pairs before it.
C3_CreateCallsAreEligiblePairs ==
    /\ \A i \in CallIndexes("create_snapshot") :
          LET pair == <<calls[i].instance_id, calls[i].VolumeId>>
          IN pair \in EligiblePairs /\ CreateCallsFor(pair) = {i}
    /\ (pc \in {"cleanup", "delete_snapshot", "save_logs", "done"} /\ calls[1].ok)
       => \A pair \in EligiblePairs : Cardinality(CreateCallsFor(pair)) = 1

\* A finished run in which a create_snapshot call failed and a later pair
\* still got its call.
C3_Witness ==
    /\ pc = "done"
    /\ \E i, j \in CallIndexes("create_snapshot") : i < j /\ ~calls[i].ok

(***************************************************************************)
(* C4                                                                      *)
(***************************************************************************)
\* C4 as stated: every create_snapshot call of a finished invocation is
\* followed at once by a tag call.
C4_EveryCreateFollowedByTag ==
    pc = "done"
    => \A i \in CallIndexes("create_snapshot") : calls[i + 1].op = "create_tags"

\* C4 as amended: the call that follows a successful create_snapshot call is
\* a create_tags call on the snapshot it returned, carrying
\* CreatedBy=automated-backup and CreatedOn = the ISO text of the current
\* date; a create_tags call is made nowhere else, so a successful
\* create_snapshot call has exactly one and a failed one has none.
C4_TagFollowsSuccessfulCreate ==
    [][calls' # calls =>
        LET c == calls'[Len(calls')]
            created == Len(calls) > 0 /\ LastCall.op = "create_snapshot" /\ LastCall.ok
        IN /\ (c.op = "create_tags") <=> created
           /\ c.op = "create_tags" =>
                /\ c.Resources = <<LastCall.SnapshotId>>
                /\ Labelled(c.Tags)
                /\ TagValues(c.Tags, "CreatedOn") = {isoformat(fromordinal(clock'))}
                /\ Len(isoformat(fromordinal(clock'))) = 10]_vars

\* A finished run with a failed create_snapshot call (no tag call) and a
\* successful one (one tag call).
C4_Witness ==
    /\ pc = "done"
    /\ \E i \in CallIndexes("create_snapshot") :
          ~calls[i].ok /\ calls[i + 1].op # "create_tags"
    /\ \E i \in CallIndexes("create_snapshot") :
          /\ calls[i].ok
          /\ {j \in CallIndexes("create_tags") : calls[j].Resources = <<calls[i].SnapshotId>>}
             = {i + 1}

(***************************************************************************)
(* C5                                                                      *)
(***************************************************************************)
\* C5: when the listing succeeded, every listed snapshot whose CreatedOn date
\* is strictly earlier than the cutoff has received a delete_snapshot call by
\* the end of the cleanup step, whatever the other listed snapshots are.
C5_EveryExpiredGetsDelete ==
    (pc \in {"save_logs", "done"} /\ \E i \in CallIndexes("describe_snapshots") : calls[i].ok)
    => \A j \in 1..Len(snapshots) :
          (\E d \in CreatedOnDays(snapshots[j].Tags) : d < toordinal(cutoff_date))
          => DeleteCalled(snapshots[j].SnapshotId)

(***************************************************************************)
(* C6                                                                      *)
(***************************************************************************)
CreationLines == {"No instances found with Backup=true tag", "Created snapshot", "Failed to backup"}

CleanupLines == {"Deleted old snapshot", "Failed to delete snapshot", "Error during cleanup"}

LineRank(line) ==
    IF line.msg = "EC2 Backup Report" THEN 0
    ELSE IF line.msg \in CreationLines THEN 1
    ELSE IF line.msg \in CleanupLines THEN 2
    ELSE 3

LinesOf(body, msgs) == {i \in 1..Len(body) : body[i].msg \in msgs}

\* C6: an invocation makes one put_object call, as its last API call (after
\* every create_snapshot and delete_snapshot call), whether it returns or
\* re-raises; the body is the header, the lines of the creation step, the
\* lines of the cleanup step and, only when the error is re-raised, the
\* top-level failure line, in that order, with one line for every
\* create_snapshot and delete_snapshot call.
C6_ReportOnceInOrder ==
    /\ \A i \in CallIndexes("put_object") : i = Len(calls) /\ pc = "done"
    /\ pc = "done" =>
          /\ LastCall.op = "put_object"
          /\ LastCall.Body = <<[msg |-> "EC2 Backup Report"]>> \o backup_logs \o cleanup_logs
                \o (IF result.kind = "raised"
                    THEN <<[msg |-> "Backup failed", error |-> result.error]>>
                    ELSE <<>>)
          /\ \A a, b \in 1..Len(LastCall.Body) :
                a < b => LineRank(LastCall.Body[a]) <= LineRank(LastCall.Body[b])
          /\ Cardinality(LinesOf(LastCall.Body, {"Created snapshot", "Failed to backup"}))
             = Cardinality(CallIndexes("create_snapshot"))
          /\ Cardinality(LinesOf(LastCall.Body, {"Deleted old snapshot", "Failed to delete snapshot"}))
             = Cardinality(CallIndexes("delete_snapshot"))

\* A run that re-raised after the creation step had logged lines.
C6_Witness ==
    /\ pc = "done"
    /\ LastCall.op = "put_object"
    /\ result.kind = "raised"
    /\ LinesOf(LastCall.Body, CreationLines) # {}

(***************************************************************************)
(* C7                                                                      *)
(***************************************************************************)
\* C7: when lambda_handler returns the success result, the count in its
\* summary is the number of snapshots the invocation created (0 when no
\* instance carries the label or every create_snapshot call failed).
C7_CountIsSnapshotsCreated ==
    result.kind = "returned"
    => result.count = Cardinality({i \in CallIndexes("create_snapshot") : calls[i].ok})

(***************************************************************************)
(* C8                                                                      *)
(***************************************************************************)
\* C8: a failed listing call (describe_instances or describe_snapshots) is
\* recovered inside its step: the steps after it still run and the
\* invocation ends with the success result.
C8_ListingFailureRecovered ==
    (pc = "done" /\ \E i \in CallIndexes("describe_instances") \cup CallIndexes("describe_snapshots") :
                        ~calls[i].ok)
    => /\ result.kind = "returned"
       /\ CallIndexes("describe_snapshots") # {}

(***************************************************************************)
(* C9                                                                      *)
(***************************************************************************)
\* C9: a failed put_object call does not change what the invoker observes:
\* status 200 when both steps completed, else the error that was being
\* propagated (never the one of put_object); and the call is not repeated.
C9_PersistFailureInvisible ==
    /\ Cardinality(CallIndexes("put_object")) <= 1
    /\ (pc = "done" /\ ~LastCall.ok) =>
          IF CallIndexes("describe_snapshots") # {}
          THEN result.kind = "returned" /\ result.statusCode = 200
          ELSE /\ result.kind = "raised"
               /\ result.error = (IF calls[1].ok THEN "OverflowError" ELSE "describe_instances")

\* A run whose put_object call failed while the describe_instances error was
\* being propagated.
C9_Witness ==
    /\ pc = "done"
    /\ ~LastCall.ok
    /\ LastCall.op = "put_object"
    /\ result = [kind |-> "raised", error |-> "describe_instances"]

(***************************************************************************)
(* C10                                                                     *)
(***************************************************************************)
\* The day written by the successful tag call on snapshot id, if there is one.
TaggedOn(id) ==
    UNION {CreatedOnDays(calls[j].Tags) :
           j \in {i \in CallIndexes("create_tags") : calls[i].ok /\ calls[i].Resources = <<id>>}}

\* C10 as stated: with RETENTION_DAYS >= 0 no delete_snapshot call is made
\* for a snapshot this invocation created and tagged.
C10_OwnSnapshotNeverDeleted ==
    RETENTION_DAYS >= 0
    => \A i \in CallIndexes("delete_snapshot") : TaggedOn(calls[i].SnapshotId) = {}

\* C10 as amended: with RETENTION_DAYS >= 0 the cleanup step is about to
\* delete a snapshot this invocation created and tagged only if the calendar
\* date has advanced by more than RETENTION_DAYS days between the tag call
\* and the reading of the date for the cutoff.
C10_OwnSnapshotKeptWithinRetention ==
    (pc = "delete_snapshot" /\ RETENTION_DAYS >= 0)
    => \A d \in TaggedOn(snapshots[k].SnapshotId) : clock - d > RETENTION_DAYS

\* A finished run in which the date advanced after the tag call, the listing
\* returned the snapshot already completed, and it was kept.
C10_Witness ==
    /\ pc = "done"
    /\ RETENTION_DAYS >= 1
    /\ \E j \in 1..Len(snapshots) :
          /\ \E d \in TaggedOn(snapshots[j].SnapshotId) : d < toordinal(cutoff_date) + RETENTION_DAYS
          /\ ~DeleteCalled(snapshots[j].SnapshotId)
          /\ Stored(snapshots[j].SnapshotId).State = "completed"

====
